---------------------------- MODULE Spec2Model ----------------------------
(***************************************************************************)
(* A model of the paper discovery and content-extraction core of           *)
(* bio-squence-miner:                                                      *)
(*   - SearchService.fetchPapers, the paginated collector, as a state      *)
(*     machine over the source lines of its loop;                          *)
(*   - PaperService.getTextContent / findInPaper / getSentence /           *)
(*     download, as operators computed the way the code computes them,     *)
(*     applied by actions to inputs drawn from bounded sets;               *)
(*   - SearchService.searchPapersWithAccessionNumbers, the collector       *)
(*     run with the accession-number transform.                            *)
(* Both classes live in src/src/services/search/search.service.ts.         *)
(*                                                                         *)
(* Conventions.  A rejected promise / thrown exception is an Error object  *)
(* (the code casts every caught value with `error as Error`).  The cursor  *)
(* honours its declared type: search() and next() resolve to a page or     *)
(* reject.  Text is a sequence of one-character strings, indexed from 1;   *)
(* the operators that model JavaScript string functions take and return    *)
(* JavaScript's 0-based indices.                                           *)
(***************************************************************************)
EXTENDS Integers, Sequences, FiniteSets, TLC

\* ------------------------------------------------------------------ bounds
MaxPages == 3
MaxPageSize == 2
MaxTarget == 2
MaxTextLen == 4
MaxPatLen == 2
MaxAccResults == 3

VARIABLES
  \* --- SearchService.fetchPapers
  maxItems,    \* the maxItems argument (0 = unbounded)
  response,    \* the current page of the cursor (local `response`)
  idx,         \* how many results of the current page the for loop has consumed
  entities,    \* the local `entities`
  fetched,     \* history: the pages the cursor has produced, in order
  mapped,      \* history: the mapResult calls, in order, with their outcome
  log,         \* history: every call made on a collaborator, in order
  pc,          \* position in fetchPapers
  failedAt,    \* which await rejected ("none" while none did)
  \* --- PaperService
  processPdf,  \* config.processPdf (false = legacy mode)
  paper,       \* the IPaperMetadata argument: url, paper.type, paper.url
  webOut,      \* what odysseus.getTextContent does for each URL
  pdfOut,      \* what pdfService.getTextContent does for each URL
  findRegex,   \* the findRegex argument of findInPaper
  outputDir,   \* the outputDir argument of download
  call,        \* which PaperService method was called ("none" before)
  ret          \* how the call ended: threw, value, collaborator calls made

collectorVars == <<maxItems, response, idx, entities, fetched, mapped, log, pc, failedAt>>

paperVars == <<processPdf, paper, webOut, pdfOut, findRegex, outputDir, call, ret>>

vars == <<collectorVars, paperVars>>

\* ------------------------------------------------------- the result cursor
\* A ResultPage: its number in the cursor, how many results it holds, and
\* whether it exposes `next`.  Results are identified by <<page, position>>.
NoResponse == [no |-> 0, size |-> 0, hasNext |-> FALSE]

\* The pages the cursor may produce as its no-th page; the cursor is finite:
\* page MaxPages has no next.
Pages(no) ==
  { [no |-> no, size |-> s, hasNext |-> h] :
      s \in 0..MaxPageSize, h \in IF no >= MaxPages THEN {FALSE} ELSE BOOLEAN }

\* The entity a transform builds from a result (both transforms of the code
\* copy the result's fields into a new object).
EntityOf(result) == [of |-> result]

\* ------------------------------------------------------------ fetchPapers
\* LoopCond without the `!maxItems` alternative
LoopCondNoUnbounded(max, len) == len < max

\* line 83: while (response && (!maxItems || entities.length < maxItems))
\* (response is a page here: search() and next() resolve to one)
LoopCond(max, len) == (max = 0) \/ (len < max)

\* BreakCond off by one
BreakCondLate(max, len) == (max # 0) /\ (len > max)

\* line 87: if (maxItems && entities.length >= maxItems) break
BreakCond(max, len) == (max # 0) /\ (len >= max)

\* push replaced by unshift
PushFront(list, entity) == <<entity>> \o list

\* line 86: entities.push(entity)
Push(list, entity) == Append(list, entity)

\* No PaperService method is involved in a fetchPapers run.
PaperIdle ==
  /\ processPdf = FALSE
  /\ paper = [url |-> "", ptype |-> "html", purl |-> ""]
  /\ webOut = <<>>
  /\ pdfOut = <<>>
  /\ findRegex = [valid |-> FALSE, atoms |-> <<>>]
  /\ outputDir = <<>>
  /\ call = "none"
  /\ ret = [threw |-> FALSE, value |-> <<>>, calls |-> <<>>]

Init ==
  /\ PaperIdle
  /\ maxItems \in 0..MaxTarget
  /\ response = NoResponse
  /\ idx = 0
  /\ entities = <<>>
  /\ fetched = <<>>
  /\ mapped = <<>>
  /\ log = <<>>
  /\ pc = "search"
  /\ failedAt = "none"

\* line 81: let response = await this.googleScholar.search(keywords)
Search ==
  /\ pc = "search"
  /\ \E p \in Pages(1) :
       /\ response' = p
       /\ fetched' = Append(fetched, p)
  /\ log' = Append(log, "search")
  /\ pc' = "while"
  /\ UNCHANGED <<paperVars, maxItems, idx, entities, mapped, failedAt>>

\* line 81, the search rejecting: nothing catches it
SearchThrows ==
  /\ pc = "search"
  /\ log' = Append(log, "search")
  /\ pc' = "failed"
  /\ failedAt' = "search"
  /\ UNCHANGED <<paperVars, maxItems, response, idx, entities, fetched, mapped>>

\* line 83 true, line 84: start the for loop over response.results
LoopEnter ==
  /\ pc = "while"
  /\ LoopCond(maxItems, Len(entities))
  /\ idx' = 0
  /\ pc' = "for"
  /\ UNCHANGED <<paperVars, maxItems, response, entities, fetched, mapped, log, failedAt>>

\* line 83 false: leave the while loop
LoopExit ==
  /\ pc = "while"
  /\ ~LoopCond(maxItems, Len(entities))
  /\ pc' = "close"
  /\ UNCHANGED <<paperVars, maxItems, response, idx, entities, fetched, mapped, log, failedAt>>

\* lines 85-87 with mapResult resolving to an entity
MapValue ==
  /\ pc = "for"
  /\ idx < response.size
  /\ LET result == <<response.no, idx + 1>>
         pushed == Push(entities, EntityOf(result))
     IN /\ entities' = pushed
        /\ mapped' = Append(mapped, [result |-> result, out |-> "value"])
        /\ log' = Append(log, "map")
        /\ IF BreakCond(maxItems, Len(pushed))
             THEN pc' = "next" /\ idx' = idx
             ELSE pc' = "for" /\ idx' = idx + 1
  /\ UNCHANGED <<paperVars, maxItems, response, fetched, failedAt>>

\* lines 85-87 with mapResult resolving to null
MapNull ==
  /\ pc = "for"
  /\ idx < response.size
  /\ LET result == <<response.no, idx + 1>>
     IN /\ mapped' = Append(mapped, [result |-> result, out |-> "null"])
        /\ log' = Append(log, "map")
        /\ IF BreakCond(maxItems, Len(entities))
             THEN pc' = "next" /\ idx' = idx
             ELSE pc' = "for" /\ idx' = idx + 1
  /\ UNCHANGED <<paperVars, maxItems, response, entities, fetched, failedAt>>

\* mapResult rejecting inside a try whose finally releases the session
MapThrowsThenClose ==
  /\ pc = "for"
  /\ idx < response.size
  /\ LET result == <<response.no, idx + 1>>
     IN /\ mapped' = Append(mapped, [result |-> result, out |-> "throw"])
        /\ log' = log \o <<"map", "close">>
  /\ pc' = "failed"
  /\ failedAt' = "map"
  /\ UNCHANGED <<paperVars, maxItems, response, idx, entities, fetched>>

\* line 85 with mapResult rejecting: nothing catches it
MapThrows ==
  /\ pc = "for"
  /\ idx < response.size
  /\ LET result == <<response.no, idx + 1>>
     IN /\ mapped' = Append(mapped, [result |-> result, out |-> "throw"])
        /\ log' = Append(log, "map")
  /\ pc' = "failed"
  /\ failedAt' = "map"
  /\ UNCHANGED <<paperVars, maxItems, response, idx, entities, fetched>>

\* line 84: response.results is exhausted
ForEnd ==
  /\ pc = "for"
  /\ idx = response.size
  /\ pc' = "next"
  /\ UNCHANGED <<paperVars, maxItems, response, idx, entities, fetched, mapped, log, failedAt>>

\* line 89 without the break: the loop goes on with the same page
NoNextLoops ==
  /\ pc = "next"
  /\ ~response.hasNext
  /\ pc' = "while"
  /\ UNCHANGED <<paperVars, maxItems, response, idx, entities, fetched, mapped, log, failedAt>>

\* line 89: if (!response.next) break
NoNext ==
  /\ pc = "next"
  /\ ~response.hasNext
  /\ pc' = "close"
  /\ UNCHANGED <<paperVars, maxItems, response, idx, entities, fetched, mapped, log, failedAt>>

\* line 90: response = await response.next()
NextPage ==
  /\ pc = "next"
  /\ response.hasNext
  /\ \E p \in Pages(response.no + 1) :
       /\ response' = p
       /\ fetched' = Append(fetched, p)
  /\ log' = Append(log, "next")
  /\ pc' = "while"
  /\ UNCHANGED <<paperVars, maxItems, idx, entities, mapped, failedAt>>

\* line 90 with next() rejecting: nothing catches it
NextThrows ==
  /\ pc = "next"
  /\ response.hasNext
  /\ log' = Append(log, "next")
  /\ pc' = "failed"
  /\ failedAt' = "next"
  /\ UNCHANGED <<paperVars, maxItems, response, idx, entities, fetched, mapped>>

\* the return without the release call
CloseSkipped ==
  /\ pc = "close"
  /\ pc' = "done"
  /\ UNCHANGED <<paperVars, maxItems, response, idx, entities, fetched, mapped, log, failedAt>>

\* lines 93-94: await this.odysseus.close(); return entities
Close ==
  /\ pc = "close"
  /\ log' = Append(log, "close")
  /\ pc' = "done"
  /\ UNCHANGED <<paperVars, maxItems, response, idx, entities, fetched, mapped, failedAt>>

\* line 93 with close() rejecting
CloseThrows ==
  /\ pc = "close"
  /\ log' = Append(log, "close")
  /\ pc' = "failed"
  /\ failedAt' = "close"
  /\ UNCHANGED <<paperVars, maxItems, response, idx, entities, fetched, mapped>>

Next ==
  \/ Search \/ SearchThrows
  \/ LoopEnter \/ LoopExit
  \/ MapValue \/ MapNull \/ MapThrows \/ ForEnd
  \/ NoNext \/ NextPage \/ NextThrows
  \/ Close \/ CloseThrows

Spec == Init /\ [][Next]_vars

\* fetchPapers is one chain of awaits on a single thread: whenever a step is
\* possible (the awaited promise settles, the next statement runs) it is
\* eventually taken.
SpecLive == Spec /\ WF_vars(Next)

\* ------------------------------------------------- JavaScript string helpers
Alphabet == {"a", "A", ".", " "}

\* The strings of at most n characters.
Texts(n) == UNION { [1..k -> Alphabet] : k \in 0..n }

Min(a, b) == IF a <= b THEN a ELSE b

\* String.prototype.indexOf(ch, from) for 0 <= from: the first position >= from
\* holding ch, or -1.
IndexOf(text, ch, from) ==
  LET hits == { k \in from..(Len(text) - 1) : text[k + 1] = ch }
  IN IF hits = {} THEN -1 ELSE CHOOSE k \in hits : \A j \in hits : k <= j

\* String.prototype.lastIndexOf(ch, from) for 0 <= from: the last position
\* <= from holding ch, or -1.
LastIndexOf(text, ch, from) ==
  LET hits == { k \in 0..Min(from, Len(text) - 1) : text[k + 1] = ch }
  IN IF hits = {} THEN -1 ELSE CHOOSE k \in hits : \A j \in hits : k >= j

\* String.prototype.slice(start, end) for 0 <= start and 0 <= end.
Slice(text, start, end) ==
  LET e == Min(end, Len(text))
  IN IF e <= start THEN <<>> ELSE SubSeq(text, start + 1, e)

IsSpace(ch) == ch = " "

\* String.prototype.trim
RECURSIVE Trim(_)
Trim(text) ==
  IF text = <<>> THEN <<>>
  ELSE IF IsSpace(text[1]) THEN Trim(SubSeq(text, 2, Len(text)))
  ELSE IF IsSpace(text[Len(text)]) THEN Trim(SubSeq(text, 1, Len(text) - 1))
  ELSE text

\* ------------------------------------------------------ regular expressions
\* A findRegex is either a source that does not compile (valid = FALSE) or a
\* sequence of one-character atoms: "a" (the letter), "\\." (an escaped
\* period), "." (any character).
Atoms == {"a", "\\.", "."}

Patterns ==
  {[valid |-> FALSE, atoms |-> <<>>]} \cup
  { [valid |-> TRUE, atoms |-> as] : as \in UNION { [1..k -> Atoms] : k \in 1..MaxPatLen } }

Lower(ch) == IF ch = "A" THEN "a" ELSE ch

\* One atom against one character under the `i` flag.
AtomMatches(atom, ch) ==
  CASE atom = "a" -> Lower(ch) = "a"
    [] atom = "\\." -> ch = "."
    [] atom = "." -> TRUE

\* Does the pattern match at 0-based position k?
MatchesAt(text, atoms, k) ==
  /\ k + Len(atoms) <= Len(text)
  /\ \A j \in 1..Len(atoms) : AtomMatches(atoms[j], text[k + j])

\* String.prototype.matchAll with a `g` regular expression: the leftmost
\* matches, none overlapping, each with its index and matched text (match[0]).
RECURSIVE MatchAllFrom(_, _, _)
MatchAllFrom(text, atoms, k) ==
  IF k + Len(atoms) > Len(text) THEN <<>>
  ELSE IF MatchesAt(text, atoms, k)
    THEN <<[index |-> k, lit |-> SubSeq(text, k + 1, k + Len(atoms))]>>
           \o MatchAllFrom(text, atoms, k + Len(atoms))
  ELSE MatchAllFrom(text, atoms, k + 1)

MatchAll(text, atoms) == MatchAllFrom(text, atoms, 0)

\* ------------------------------------------------------------ PaperService
Fail == [ok |-> FALSE, text |-> <<>>]
Ok(text) == [ok |-> TRUE, text |-> text]

WebCall(url) == [svc |-> "web", url |-> url]
PdfCall(url) == [svc |-> "pdf", url |-> url]

\* line 120-122: getWebContent
GetWebContent(web, url) == web[url]

\* line 124-126: getPdfContent
GetPdfContent(pdf, url) == pdf[url]

\* lines 129-133: getSentence
GetSentence(text, index) ==
  LET start == LastIndexOf(text, ".", index) + 1
      end == IndexOf(text, ".", index) + 1
  IN Trim(Slice(text, start, end))

\* the legacy branch reading the source URL when there is one
LegacyContentFromSource(ref, web) ==
  LET u == IF ref.purl # "" THEN ref.purl ELSE ref.url
  IN IF u # ""
       THEN LET o == GetWebContent(web, u)
            IN [threw |-> ~o.ok, value |-> o.text, calls |-> <<WebCall(u)>>]
       ELSE [threw |-> FALSE, value |-> <<>>, calls |-> <<>>]

\* line 146: if (!this.config.processPdf) return url !== '' ? this.getWebContent(url) : ''
LegacyContent(ref, web) ==
  IF ref.url # ""
    THEN LET o == GetWebContent(web, ref.url)
         IN [threw |-> ~o.ok, value |-> o.text, calls |-> <<WebCall(ref.url)>>]
    ELSE [threw |-> FALSE, value |-> <<>>, calls |-> <<>>]

\* the fallback giving up with the empty string instead of reading the main URL
MainFallbackEmpty(ref, web, calls) ==
  [threw |-> FALSE, value |-> <<>>, calls |-> calls]

\* lines 157-159: the fallback to the main URL, after `calls` were made
MainFallback(ref, web, calls) ==
  IF ref.url = ""
    THEN [threw |-> FALSE, value |-> <<>>, calls |-> calls]
    ELSE LET o == GetWebContent(web, ref.url)
         IN [threw |-> ~o.ok, value |-> o.text,
             calls |-> Append(calls, WebCall(ref.url))]

\* getTextContent without the try/catch around the primary read
GetTextContentNoCatch(cfg, ref, web, pdf) ==
  IF ~cfg THEN LegacyContent(ref, web)
  ELSE IF ref.ptype = "pdf"
    THEN LET o == GetPdfContent(pdf, ref.purl)
         IN [threw |-> ~o.ok, value |-> o.text, calls |-> <<PdfCall(ref.purl)>>]
  ELSE IF ref.purl # ""
    THEN LET o == GetWebContent(web, ref.purl)
         IN [threw |-> ~o.ok, value |-> o.text, calls |-> <<WebCall(ref.purl)>>]
  ELSE MainFallback(ref, web, <<>>)

\* getTextContent reading the main URL even after a successful primary read
GetTextContentAlwaysMain(cfg, ref, web, pdf) ==
  IF ~cfg THEN LegacyContent(ref, web)
  ELSE IF ref.ptype = "pdf"
    THEN MainFallback(ref, web, <<PdfCall(ref.purl)>>)
  ELSE IF ref.purl # ""
    THEN MainFallback(ref, web, <<WebCall(ref.purl)>>)
  ELSE MainFallback(ref, web, <<>>)

\* lines 144-160: getTextContent({ url, paper }), cfg = config.processPdf
GetTextContent(cfg, ref, web, pdf) ==
  IF ~cfg THEN LegacyContent(ref, web)
  ELSE IF ref.ptype = "pdf"
    THEN LET o == GetPdfContent(pdf, ref.purl)
         IN IF o.ok
              THEN [threw |-> FALSE, value |-> o.text, calls |-> <<PdfCall(ref.purl)>>]
              ELSE MainFallback(ref, web, <<PdfCall(ref.purl)>>)
  ELSE IF ref.purl # ""
    THEN LET o == GetWebContent(web, ref.purl)
         IN IF o.ok
              THEN [threw |-> FALSE, value |-> o.text, calls |-> <<WebCall(ref.purl)>>]
              ELSE MainFallback(ref, web, <<WebCall(ref.purl)>>)
  ELSE MainFallback(ref, web, <<>>)

\* Map.get / Map.set keyed by the lower-cased match
MapSetIgnoringCase(items, key, sentence) ==
  LET at == { k \in 1..Len(items) : [j \in 1..Len(key) |-> Lower(key[j])] = items[k].text }
  IN IF at = {}
       THEN Append(items, [text |-> [j \in 1..Len(key) |-> Lower(key[j])],
                           sentences |-> <<sentence>>])
       ELSE LET k == CHOOSE k \in at : TRUE
            IN [items EXCEPT ![k].sentences = Append(@, sentence)]

\* lines 174-176: the sentences of match[0] (or none yet), with the new
\* sentence pushed, set under match[0]; a Map keeps its keys in insertion order
MapSet(items, key, sentence) ==
  LET at == { k \in 1..Len(items) : items[k].text = key }
  IN IF at = {}
       THEN Append(items, [text |-> key, sentences |-> <<sentence>>])
       ELSE LET k == CHOOSE k \in at : TRUE
            IN [items EXCEPT ![k].sentences = Append(@, sentence)]

\* lines 170-179: the loop over the matches, and the Map as an array of
\* { text, sentences }
RECURSIVE FoundItems(_, _)
FoundItems(text, matches) ==
  IF matches = <<>> THEN <<>>
  ELSE LET m == matches[Len(matches)]
       IN MapSet(FoundItems(text, SubSeq(matches, 1, Len(matches) - 1)),
                 m.lit, GetSentence(text, m.index))

\* findInPaper without the try/catch
FindInPaperNoCatch(cfg, ref, web, pdf, regex) ==
  LET content == GetTextContent(cfg, ref, web, pdf)
  IN IF content.threw \/ ~regex.valid
       THEN [threw |-> TRUE, value |-> <<>>, calls |-> content.calls]
       ELSE [threw |-> FALSE,
             value |-> FoundItems(content.value, MatchAll(content.value, regex.atoms)),
             calls |-> content.calls]

\* lines 166-184: findInPaper(paper, findRegex)
FindInPaper(cfg, ref, web, pdf, regex) ==
  LET content == GetTextContent(cfg, ref, web, pdf)
  IN IF content.threw
       THEN [threw |-> FALSE, value |-> <<>>, calls |-> content.calls]   \* line 168 rejects
     ELSE IF ~regex.valid
       THEN [threw |-> FALSE, value |-> <<>>, calls |-> content.calls]   \* line 169 throws
     ELSE [threw |-> FALSE,
           value |-> FoundItems(content.value, MatchAll(content.value, regex.atoms)),
           calls |-> content.calls]

\* No fetchPapers run is involved in a PaperService call.
CollectorIdle ==
  /\ maxItems = 0
  /\ response = NoResponse
  /\ idx = 0
  /\ entities = <<>>
  /\ fetched = <<>>
  /\ mapped = <<>>
  /\ log = <<>>
  /\ pc = "idle"
  /\ failedAt = "none"

\* --- getTextContent on every reference, mode and collaborator behaviour
MainUrls == {"", "m"}
SourceUrls == {"", "m", "s"}
WebUrls == {"m", "s"}

\* What each collaborator returns for a URL when it succeeds: a different
\* text for every collaborator and URL.
WebText(u) == IF u = "m" THEN <<"a">> ELSE <<"A", " ">>
PdfText(u) ==
  IF u = "m" THEN <<"a", ".">> ELSE IF u = "s" THEN <<"A", ".">> ELSE <<".">>

InitText ==
  /\ CollectorIdle
  /\ processPdf \in BOOLEAN
  /\ paper \in [url : MainUrls, ptype : {"pdf", "html"}, purl : SourceUrls]
  /\ \E okWeb \in SUBSET WebUrls :
       webOut = [u \in WebUrls |-> IF u \in okWeb THEN Ok(WebText(u)) ELSE Fail]
  /\ \E okPdf \in SUBSET SourceUrls :
       pdfOut = [u \in SourceUrls |-> IF u \in okPdf THEN Ok(PdfText(u)) ELSE Fail]
  /\ findRegex = [valid |-> FALSE, atoms |-> <<>>]
  /\ outputDir = <<>>
  /\ call = "none"
  /\ ret = [threw |-> FALSE, value |-> <<>>, calls |-> <<>>]

CallGetTextContent ==
  /\ call = "none"
  /\ call' = "getTextContent"
  /\ ret' = GetTextContent(processPdf, paper, webOut, pdfOut)
  /\ UNCHANGED <<collectorVars, processPdf, paper, webOut, pdfOut, findRegex, outputDir>>

NextText == CallGetTextContent

SpecText == InitText /\ [][NextText]_vars

\* --- findInPaper on every content and pattern
\* The reference has an HTML source; the content is what the source URL
\* gives, what the main URL gives after the source failed, or nothing at all
\* when both fail.
InitFind ==
  /\ CollectorIdle
  /\ processPdf = TRUE
  /\ paper = [url |-> "m", ptype |-> "html", purl |-> "s"]
  /\ \E content \in Texts(MaxTextLen) :
       webOut \in { [m |-> Fail, s |-> Ok(content)],
                    [m |-> Ok(content), s |-> Fail],
                    [m |-> Fail, s |-> Fail] }
  /\ pdfOut = [u \in SourceUrls |-> Fail]
  /\ findRegex \in Patterns
  /\ outputDir = <<>>
  /\ call = "none"
  /\ ret = [threw |-> FALSE, value |-> <<>>, calls |-> <<>>]

CallFindInPaper ==
  /\ call = "none"
  /\ call' = "findInPaper"
  /\ ret' = FindInPaper(processPdf, paper, webOut, pdfOut, findRegex)
  /\ UNCHANGED <<collectorVars, processPdf, paper, webOut, pdfOut, findRegex, outputDir>>

NextFind == CallFindInPaper

SpecFind == InitFind /\ [][NextFind]_vars

\* --- download on every title, source kind and collaborator behaviour
\* line 195: the characters /[\s/]/ matches among those of a title
IsSpaceOrSlash(ch) == ch \in {" ", "\t", "\n", "/"}

\* title.replace without the `g` flag: only the first match is replaced
SanitizeTitleFirstOnly(title) ==
  LET hits == { k \in 1..Len(title) : IsSpaceOrSlash(title[k]) }
  IN IF hits = {} THEN title
     ELSE [title EXCEPT ![CHOOSE k \in hits : \A j \in hits : k <= j] = "_"]

\* line 195: title.replace(/[\s/]/g, '_')
RECURSIVE SanitizeTitle(_)
SanitizeTitle(title) ==
  IF title = <<>> THEN <<>>
  ELSE <<IF IsSpaceOrSlash(title[1]) THEN "_" ELSE title[1]>>
         \o SanitizeTitle(SubSeq(title, 2, Len(title)))

\* The characters of a source kind, as `${paper.type}` writes them.
TypeChars(ptype) == IF ptype = "pdf" THEN <<"p", "d", "f">> ELSE <<"h", "t", "m", "l">>

\* line 195: `${outputDir}/${title.replace(/[\s/]/g, '_')}.${paper.type}`
FilePath(dir, title, ptype) ==
  dir \o <<"/">> \o SanitizeTitle(title) \o <<".">> \o TypeChars(ptype)

DownloadCall(url, path) == [svc |-> "download", url |-> url, path |-> path]

\* lines 189-197: download({ title, paper }, outputDir); ok tells whether
\* downloadService.download resolves
Download(ref, dir, ok) ==
  IF ref.ptype # "pdf"
    THEN [threw |-> FALSE, value |-> <<>>, calls |-> <<>>]
    ELSE [threw |-> ~ok, value |-> <<>>,
          calls |-> <<DownloadCall(ref.purl, FilePath(dir, ref.title, ref.ptype))>>]

TitleAlphabet == {"a", " ", "\t", "/", "_"}

Titles == UNION { [1..k -> TitleAlphabet] : k \in 0..MaxTextLen }

OutputDirs == {<<".">>, <<"o", "/", "d">>}

\* The reference carries its title here; getTextContent and findInPaper do
\* not read it.
InitDownload ==
  /\ CollectorIdle
  /\ processPdf = TRUE
  /\ paper \in [title : Titles, url : {"m"}, ptype : {"pdf", "html"}, purl : {"", "s"}]
  /\ webOut = [u \in WebUrls |-> Fail]
  /\ pdfOut = [u \in SourceUrls |-> Fail]
  /\ findRegex = [valid |-> FALSE, atoms |-> <<>>]
  /\ outputDir \in OutputDirs
  /\ call = "none"
  /\ ret = [threw |-> FALSE, value |-> <<>>, calls |-> <<>>]

CallDownload ==
  /\ call = "none"
  /\ call' = "download"
  /\ \E ok \in BOOLEAN : ret' = Download(paper, outputDir, ok)
  /\ UNCHANGED <<collectorVars, processPdf, paper, webOut, pdfOut, findRegex, outputDir>>

NextDownload == CallDownload

SpecDownload == InitDownload /\ [][NextDownload]_vars

\* ------------------------------------- searchPapersWithAccessionNumbers
\* A string[] | null: JavaScript's null, or an array (which may be empty).
Null == [isNull |-> TRUE, items |-> <<>>]
Array(items) == [isNull |-> FALSE, items |-> items]

UpperCase == {"A", "B", "C", "D", "E", "F", "G", "H", "I", "J", "K", "L", "M",
              "N", "O", "P", "Q", "R", "S", "T", "U", "V", "W", "X", "Y", "Z"}
Digits == {"0", "1", "2", "3", "4", "5", "6", "7", "8", "9"}

\* line 99: /PRJ[A-Z]{2}[0-9]{6}/g, atom by atom
AccessionAtoms ==
  <<"P", "R", "J", "[A-Z]", "[A-Z]",
    "[0-9]", "[0-9]", "[0-9]", "[0-9]", "[0-9]", "[0-9]">>

\* One atom of the accession pattern against one character (no `i` flag).
AccessionAtomMatches(atom, ch) ==
  CASE atom = "[A-Z]" -> ch \in UpperCase
    [] atom = "[0-9]" -> ch \in Digits
    [] OTHER -> ch = atom

AccessionMatchesAt(text, k) ==
  /\ k + Len(AccessionAtoms) <= Len(text)
  /\ \A j \in 1..Len(AccessionAtoms) : AccessionAtomMatches(AccessionAtoms[j], text[k + j])

\* The matched substrings, leftmost first, none overlapping.
RECURSIVE AccessionMatchesFrom(_, _)
AccessionMatchesFrom(text, k) ==
  IF k + Len(AccessionAtoms) > Len(text) THEN <<>>
  ELSE IF AccessionMatchesAt(text, k)
    THEN <<SubSeq(text, k + 1, k + Len(AccessionAtoms))>>
           \o AccessionMatchesFrom(text, k + Len(AccessionAtoms))
  ELSE AccessionMatchesFrom(text, k + 1)

\* String.prototype.match with a `g` regular expression: every matched
\* substring, or null when there is none.
StringMatch(text) ==
  LET found == AccessionMatchesFrom(text, 0)
  IN IF found = <<>> THEN Null ELSE Array(found)

\* extractAccessionNumbers ending in `?? []`
ExtractAccessionNumbersOrEmpty(content) ==
  IF StringMatch(content) = Null THEN Array(<<>>) ELSE StringMatch(content)

\* lines 97-100: return content.match(/PRJ[A-Z]{2}[0-9]{6}/g) ?? null
ExtractAccessionNumbers(content) ==
  IF StringMatch(content) = Null THEN Null ELSE StringMatch(content)

\* line 36: `!accessionNumbers`: null is falsy, every array (the empty one
\* too) is truthy
IsFalsy(accessionNumbers) == accessionNumbers = Null

\* lines 40-49: the PaperWithAccessionEntity built from a result
AccessionEntityOf(result, accessionNumbers) ==
  [of |-> result, accessionNumbers |-> accessionNumbers.items]

\* What odysseus.getContent may give for a result's URL.
Id1 == <<"P", "R", "J", "N", "A", "1", "2", "3", "4", "5", "6">>
Id2 == <<"P", "R", "J", "E", "B", "6", "5", "4", "3", "2", "1">>

\* lower case, five digits only, one letter only: no identifier
ContentNone ==
  <<"p", "r", "j", "n", "a", "1", "2", "3", "4", "5", "6", " ">>
    \o <<"P", "R", "J", "N", "A", "1", "2", "3", "4", "5", " ">>
    \o <<"P", "R", "J", "N", "1", "2", "3", "4", "5", "6", "7">>

\* one identifier inside a sentence, followed by a further digit
ContentOne == <<"x", ".", " ">> \o Id1 \o <<"7", " ", "y", ".">>

\* two identifiers
ContentTwo == Id2 \o <<" ">> \o Id1

SampleContents == {<<>>, ContentNone, ContentOne, ContentTwo}

\* How many results the pages hold.
RECURSIVE ResultCount(_)
ResultCount(ps) ==
  IF ps = <<>> THEN 0
  ELSE ps[Len(ps)].size + ResultCount(SubSeq(ps, 1, Len(ps) - 1))

\* The pages the cursor may produce as its no-th page after `ps`: a cursor of
\* at most MaxAccResults results in all.
AccessionPages(no, ps) ==
  { p \in Pages(no) : ResultCount(ps) + p.size <= MaxAccResults }

\* line 81, for a cursor of at most MaxAccResults results
SearchAccession ==
  /\ pc = "search"
  /\ \E p \in AccessionPages(1, fetched) :
       /\ response' = p
       /\ fetched' = Append(fetched, p)
  /\ log' = Append(log, "search")
  /\ pc' = "while"
  /\ UNCHANGED <<paperVars, maxItems, idx, entities, mapped, failedAt>>

\* line 90, for a cursor of at most MaxAccResults results
NextPageAccession ==
  /\ pc = "next"
  /\ response.hasNext
  /\ \E p \in AccessionPages(response.no + 1, fetched) :
       /\ response' = p
       /\ fetched' = Append(fetched, p)
  /\ log' = Append(log, "next")
  /\ pc' = "while"
  /\ UNCHANGED <<paperVars, maxItems, idx, entities, mapped, failedAt>>

\* lines 85-87 with the transform of lines 32-50 returning at line 33:
\* the result has no url
MapAccessionNoUrl ==
  /\ pc = "for"
  /\ idx < response.size
  /\ LET result == <<response.no, idx + 1>>
     IN /\ mapped' = Append(mapped, [result |-> result, out |-> "null",
                                     rendered |-> FALSE, content |-> <<>>,
                                     accessionNumbers |-> Null])
        /\ log' = Append(log, "map")
        /\ IF BreakCond(maxItems, Len(entities))
             THEN pc' = "next" /\ idx' = idx
             ELSE pc' = "for" /\ idx' = idx + 1
  /\ UNCHANGED <<paperVars, maxItems, response, entities, fetched, failedAt>>

\* lines 85-87 with the transform of lines 32-50 rendering the result's url:
\* null at line 36 when no accession number is found, the entity otherwise
MapAccession ==
  /\ pc = "for"
  /\ idx < response.size
  /\ \E content \in SampleContents :
       LET result == <<response.no, idx + 1>>
           accessionNumbers == ExtractAccessionNumbers(content)
           filtered == IsFalsy(accessionNumbers)
           pushed == IF filtered THEN entities
                     ELSE Push(entities, AccessionEntityOf(result, accessionNumbers))
       IN /\ entities' = pushed
          /\ mapped' = Append(mapped,
                              [result |-> result,
                               out |-> IF filtered THEN "null" ELSE "value",
                               rendered |-> TRUE, content |-> content,
                               accessionNumbers |-> accessionNumbers])
          /\ log' = log \o <<"map", "getContent">>
          /\ IF BreakCond(maxItems, Len(pushed))
               THEN pc' = "next" /\ idx' = idx
               ELSE pc' = "for" /\ idx' = idx + 1
  /\ UNCHANGED <<paperVars, maxItems, response, fetched, failedAt>>

\* line 85 with odysseus.getContent (line 98) rejecting: nothing catches it
MapAccessionThrows ==
  /\ pc = "for"
  /\ idx < response.size
  /\ LET result == <<response.no, idx + 1>>
     IN /\ mapped' = Append(mapped, [result |-> result, out |-> "throw",
                                     rendered |-> TRUE, content |-> <<>>,
                                     accessionNumbers |-> Null])
        /\ log' = log \o <<"map", "getContent">>
  /\ pc' = "failed"
  /\ failedAt' = "map"
  /\ UNCHANGED <<paperVars, maxItems, response, idx, entities, fetched>>

NextAccession ==
  \/ SearchAccession \/ SearchThrows
  \/ LoopEnter \/ LoopExit
  \/ MapAccessionNoUrl \/ MapAccession \/ MapAccessionThrows \/ ForEnd
  \/ NoNext \/ NextPageAccession \/ NextThrows
  \/ Close \/ CloseThrows

SpecAccession == Init /\ [][NextAccession]_vars

\* ------------------------------------------------- collector: helper views
\* The results of a page, in in-page order.
PageResults(p) == [k \in 1..p.size |-> <<p.no, k>>]

\* The results of a sequence of pages in page-then-in-page order.
RECURSIVE AllResults(_)
AllResults(ps) ==
  IF ps = <<>> THEN <<>>
  ELSE AllResults(SubSeq(ps, 1, Len(ps) - 1)) \o PageResults(ps[Len(ps)])

IsKept(m) == m.out = "value"

\* How many entries of a sequence equal x.
RECURSIVE Count(_, _)
Count(seq, x) ==
  IF seq = <<>> THEN 0
  ELSE (IF seq[Len(seq)] = x THEN 1 ELSE 0) + Count(SubSeq(seq, 1, Len(seq) - 1), x)

Returned == pc = "done"
LoopOver == pc \in {"close", "done"} \/ failedAt = "close"

\* ------------------------------------------------------------------ claims
\* C1: for every targetCount > 0 the accumulated entity count never exceeds
\* targetCount, at any point of the run and in the returned list.
C1_CountNeverExceedsTarget ==
  maxItems > 0 => Len(entities) <= maxItems

\* C1 witness: a bounded run returned a full list having stopped in the middle
\* of a page that still held results.
C1_Witness ==
  /\ Returned
  /\ maxItems > 0
  /\ Len(entities) = maxItems
  /\ idx + 1 < response.size

\* C2: with targetCount = 0 the loop is left only on a page without next, and
\* by then every result of every page of the cursor was passed to transform
\* exactly once (in cursor order).
C2_UnboundedRunsToExhaustion ==
  (maxItems = 0 /\ LoopOver) =>
    /\ ~response.hasNext
    /\ response = fetched[Len(fetched)]
    /\ [k \in 1..Len(mapped) |-> mapped[k].result] = AllResults(fetched)

\* C2 witness: an unbounded run returned after several pages, with values and
\* filtered results among them.
C2_Witness ==
  /\ Returned
  /\ maxItems = 0
  /\ Len(fetched) >= 2
  /\ Len(entities) >= 2
  /\ Len(mapped) > Len(entities)

\* C3: the results are passed to transform in page-then-in-page order, each
\* once, and the list holds exactly the transform values of the non-filtered
\* ones among them, in that order.
C3_OrderPreserved ==
  /\ Len(mapped) <= Len(AllResults(fetched))
  /\ [k \in 1..Len(mapped) |-> mapped[k].result]
       = SubSeq(AllResults(fetched), 1, Len(mapped))
  /\ LET kept == SelectSeq(mapped, IsKept)
     IN entities = [k \in 1..Len(kept) |-> EntityOf(kept[k].result)]

\* C3 witness: a returned list with entities of two pages and a filtered
\* result before the last of them.
C3_Witness ==
  /\ Returned
  /\ Len(entities) >= 2
  /\ entities[1].of[1] # entities[Len(entities)].of[1]
  /\ mapped[Len(mapped) - 1].out = "null"

\* C4: an invocation that returns normally made exactly one close call, and it
\* is the last call made on any collaborator (after the last transform and the
\* last page fetch); no close call is ever made before the loop is over.
C4_ExactlyOneCloseAtEnd ==
  /\ Returned => (Count(log, "close") = 1 /\ log[Len(log)] = "close")
  /\ ~LoopOver => Count(log, "close") = 0
  /\ Count(log, "close") <= 1

\* C4 witness: a bounded run that returned fewer results than requested,
\* after exhausting a cursor of several pages.
C4_Witness ==
  /\ Returned
  /\ maxItems > 0
  /\ Len(entities) < maxItems
  /\ Len(fetched) >= 2
  /\ Len(mapped) >= 1

\* ------------------------------------------------ PaperService: helper views
\* Source-aware mode attempts a primary read: PDF extraction for kind pdf,
\* otherwise the render of a non-empty source URL.
PrimaryAttempted == processPdf /\ (paper.ptype = "pdf" \/ paper.purl # "")

PrimaryOutcome ==
  IF paper.ptype = "pdf" THEN pdfOut[paper.purl] ELSE webOut[paper.purl]

PrimaryCall ==
  IF paper.ptype = "pdf" THEN PdfCall(paper.purl) ELSE WebCall(paper.purl)

\* The call reaches the render of the main URL.
MainRenderReached ==
  /\ paper.url # ""
  /\ ~processPdf \/ ~PrimaryAttempted \/ ~PrimaryOutcome.ok

\* The sum of the lengths of the sentence lists of a list of found items.
RECURSIVE SentenceCount(_)
SentenceCount(items) ==
  IF items = <<>> THEN 0
  ELSE Len(items[Len(items)].sentences) + SentenceCount(SubSeq(items, 1, Len(items) - 1))

\* The position of the first match of a literal in a list of matches.
FirstMatchOf(matches, lit) ==
  CHOOSE k \in 1..Len(matches) :
    /\ matches[k].lit = lit
    /\ \A j \in 1..(k - 1) : matches[j].lit # lit

\* C5 as stated: getTextContent never throws to its caller, whichever
\* collaborators fail, the render of the main URL included.
C5_NeverThrows ==
  call = "getTextContent" => ~ret.threw

\* C5 amended: getTextContent throws exactly when it reaches the render of
\* the main URL and that render fails; a failing primary read is caught and
\* followed by the main-URL render or, with an empty main URL, by the empty
\* string.
C5_ThrowsOnlyOnMainRender ==
  call = "getTextContent" =>
    /\ ret.threw <=> (MainRenderReached /\ ~webOut[paper.url].ok)
    /\ (PrimaryAttempted /\ ~PrimaryOutcome.ok) =>
         IF paper.url = ""
           THEN ~ret.threw /\ ret.value = <<>> /\ ret.calls = <<PrimaryCall>>
           ELSE ret.calls = <<PrimaryCall, WebCall(paper.url)>>

\* C5 witness: the PDF extraction failed, was caught, and the main URL gave
\* the text.
C5_Witness ==
  /\ call = "getTextContent"
  /\ processPdf /\ paper.ptype = "pdf" /\ ~pdfOut[paper.purl].ok
  /\ paper.url = "m" /\ webOut["m"].ok
  /\ ~ret.threw /\ ret.value = WebText("m")

\* C6: in source-aware mode, when the primary read throws, getTextContent
\* ends as legacy mode ends for the same reference: with the renderer's
\* output for the main URL, or with the empty string if the main URL is empty.
C6_FallbackEqualsLegacy ==
  (call = "getTextContent" /\ PrimaryAttempted /\ ~PrimaryOutcome.ok) =>
    LET legacy == GetTextContent(FALSE, paper, webOut, pdfOut)
    IN /\ ret.threw = legacy.threw
       /\ ret.value = legacy.value
       /\ paper.url = "" => (~ret.threw /\ ret.value = <<>>)
       /\ (paper.url # "" /\ webOut[paper.url].ok) =>
            (~ret.threw /\ ret.value = webOut[paper.url].text)

\* C6 witness: kind pdf, the PDF extractor throws, the result is the render of
\* the main URL.
C6_Witness ==
  /\ call = "getTextContent"
  /\ processPdf /\ paper = [url |-> "m", ptype |-> "pdf", purl |-> "s"]
  /\ ~pdfOut["s"].ok /\ webOut["m"].ok /\ webOut["s"].ok
  /\ ~ret.threw /\ ret.value = WebText("m")

\* C7: in legacy mode the only collaborator call is the render of a non-empty
\* main URL, whose output is returned verbatim; an empty main URL gives the
\* empty string with no call; the source kind and URL change nothing.
C7_LegacyIgnoresSource ==
  (call = "getTextContent" /\ ~processPdf) =>
    /\ ret.calls = IF paper.url = "" THEN <<>> ELSE <<WebCall(paper.url)>>
    /\ paper.url = "" => (~ret.threw /\ ret.value = <<>>)
    /\ (paper.url # "" /\ webOut[paper.url].ok) =>
         (~ret.threw /\ ret.value = webOut[paper.url].text)
    /\ \A t \in {"pdf", "html"}, u \in SourceUrls :
         GetTextContent(FALSE, [url |-> paper.url, ptype |-> t, purl |-> u],
                        webOut, pdfOut) = ret

\* C7 witness: legacy mode, a PDF source that could be read, and the main
\* URL's render returned.
C7_Witness ==
  /\ call = "getTextContent"
  /\ ~processPdf /\ paper = [url |-> "m", ptype |-> "pdf", purl |-> "s"]
  /\ pdfOut["s"].ok /\ webOut["s"].ok /\ webOut["m"].ok
  /\ ret.value = WebText("m")

\* C8: in source-aware mode, when the primary read succeeds, its text is
\* returned unchanged and the primary read is the only collaborator call (the
\* main URL is not consulted).
C8_PrimarySuccessReturnedDirectly ==
  (call = "getTextContent" /\ PrimaryAttempted /\ PrimaryOutcome.ok) =>
    /\ ~ret.threw
    /\ ret.value = PrimaryOutcome.text
    /\ ret.calls = <<PrimaryCall>>

\* C8 witness: an HTML source that renders, with a main URL that would
\* render too.
C8_Witness ==
  /\ call = "getTextContent"
  /\ processPdf /\ paper = [url |-> "m", ptype |-> "html", purl |-> "s"]
  /\ webOut["s"].ok /\ webOut["m"].ok
  /\ ret.value = WebText("s")

\* C9: findInPaper never throws; it returns the empty list when the text
\* extraction rejects, when the pattern does not compile, and when the pattern
\* matches nothing.
C9_FindNeverThrows ==
  call = "findInPaper" =>
    LET content == GetTextContent(processPdf, paper, webOut, pdfOut)
    IN /\ ~ret.threw
       /\ (content.threw \/ ~findRegex.valid) => ret.value = <<>>
       /\ (~content.threw /\ findRegex.valid
             /\ MatchAll(content.value, findRegex.atoms) = <<>>) => ret.value = <<>>

\* C9 witness: the extraction rejected (source and main URL both failed)
\* under a pattern that compiles.
C9_Witness ==
  /\ call = "findInPaper"
  /\ ~webOut["s"].ok /\ ~webOut["m"].ok
  /\ findRegex.valid
  /\ ret = [threw |-> FALSE, value |-> <<>>, calls |-> <<WebCall("s"), WebCall("m")>>]

\* C10: the found items are one per distinct matched literal (case matters),
\* in the order the literals were first matched; an item's sentences are the
\* sentences of the occurrences of its literal, in occurrence order,
\* duplicates kept; so there are as many sentence entries as matches.
C10_GroupedByLiteral ==
  (call = "findInPaper" /\ findRegex.valid
     /\ ~GetTextContent(processPdf, paper, webOut, pdfOut).threw) =>
    LET text == GetTextContent(processPdf, paper, webOut, pdfOut).value
        matches == MatchAll(text, findRegex.atoms)
        items == ret.value
    IN /\ \A i, j \in 1..Len(items) : items[i].text = items[j].text => i = j
       /\ { items[i].text : i \in 1..Len(items) }
            = { matches[k].lit : k \in 1..Len(matches) }
       /\ \A i, j \in 1..Len(items) :
            i < j => FirstMatchOf(matches, items[i].text)
                       < FirstMatchOf(matches, items[j].text)
       /\ \A i \in 1..Len(items) :
            LET IsOccurrence(m) == m.lit = items[i].text
                occ == SelectSeq(matches, IsOccurrence)
            IN items[i].sentences
                 = [k \in 1..Len(occ) |-> GetSentence(text, occ[k].index)]
       /\ SentenceCount(items) = Len(matches)

\* C10 witness: a literal matched twice gives one item with two sentences,
\* and the same letter in the other case is an item of its own.
C10_Witness ==
  /\ call = "findInPaper"
  /\ Len(ret.value) = 2
  /\ ret.value[1].text = <<"A">>
  /\ Len(ret.value[1].sentences) = 2
  /\ ret.value[2].text = <<"a">>

\* C11 as stated: the sentence of a match is the trimmed slice of the text
\* from right after the nearest period before the match's start index (or
\* from the document start) to just after the next period at or after the
\* match's start index, or to the document end when no such period exists.
C11_SentenceOfMatch ==
  (call = "findInPaper" /\ findRegex.valid
     /\ ~GetTextContent(processPdf, paper, webOut, pdfOut).threw) =>
    LET text == GetTextContent(processPdf, paper, webOut, pdfOut).value
        matches == MatchAll(text, findRegex.atoms)
        items == ret.value
        Before(index) == { k \in 0..(index - 1) : text[k + 1] = "." }
        After(index) == { k \in index..(Len(text) - 1) : text[k + 1] = "." }
        From(index) ==
          IF Before(index) = {} THEN 0
          ELSE (CHOOSE k \in Before(index) : \A j \in Before(index) : j <= k) + 1
        To(index) ==
          IF After(index) = {} THEN Len(text)
          ELSE (CHOOSE k \in After(index) : \A j \in After(index) : k <= j) + 1
        Stated(index) == Trim(SubSeq(text, From(index) + 1, To(index)))
    IN \A i \in 1..Len(items) :
         LET IsOccurrence(m) == m.lit = items[i].text
             occ == SelectSeq(matches, IsOccurrence)
         IN /\ Len(items[i].sentences) = Len(occ)
            /\ \A k \in 1..Len(occ) : items[i].sentences[k] = Stated(occ[k].index)

\* What the accession pattern finds in each content, in order.
IdentifiersIn(content) ==
  CASE content = ContentOne -> <<Id1>>
    [] content = ContentTwo -> <<Id2, Id1>>
    [] OTHER -> <<>>

HasIdentifiers(m) == m.rendered /\ m.out # "throw" /\ IdentifiersIn(m.content) # <<>>

\* C12: extractAccessionNumbers gives null, never an empty list, for a
\* content without identifier; a result whose extraction is null is left out;
\* the entities are those of the results whose content holds an identifier,
\* in order, each with the non-empty list of all identifiers of its content
\* in order.
C12_AccessionListsNonEmpty ==
  /\ \A k \in 1..Len(mapped) :
       (mapped[k].rendered /\ mapped[k].out # "throw") =>
         /\ mapped[k].accessionNumbers # Array(<<>>)
         /\ IdentifiersIn(mapped[k].content) = <<>> =>
              (mapped[k].accessionNumbers = Null /\ mapped[k].out = "null")
  /\ LET kept == SelectSeq(mapped, HasIdentifiers)
     IN /\ Len(entities) = Len(kept)
        /\ \A k \in 1..Len(kept) :
             /\ entities[k].of = kept[k].result
             /\ entities[k].accessionNumbers # <<>>
             /\ entities[k].accessionNumbers = IdentifiersIn(kept[k].content)

\* C12 witness: a returned list holding an entity with two identifiers, after
\* a result without identifier and one without url were left out.
C12_Witness ==
  /\ Returned
  /\ Len(mapped) = 3
  /\ ~mapped[1].rendered
  /\ mapped[2].rendered /\ mapped[2].content = ContentNone
  /\ Len(entities) = 1
  /\ entities[1].accessionNumbers = <<Id2, Id1>>

\* C13: download makes no call to the download collaborator when the source
\* kind is not pdf, and exactly one when it is pdf: with the source URL and
\* the path outputDir + "/" + the title with every whitespace character and
\* slash replaced by an underscore + ".pdf".
C13_DownloadOnlyPdf ==
  call = "download" =>
    IF paper.ptype # "pdf"
      THEN ret.calls = <<>> /\ ~ret.threw
      ELSE /\ Len(ret.calls) = 1
           /\ ret.calls[1].svc = "download"
           /\ ret.calls[1].url = paper.purl
           /\ LET path == ret.calls[1].path
                  n == Len(outputDir)
                  t == Len(paper.title)
              IN /\ Len(path) = n + 1 + t + 4
                 /\ SubSeq(path, 1, n) = outputDir
                 /\ path[n + 1] = "/"
                 /\ \A k \in 1..t :
                      path[n + 1 + k] =
                        IF paper.title[k] \in {" ", "\t", "/"} THEN "_" ELSE paper.title[k]
                 /\ SubSeq(path, n + t + 2, n + t + 5) = <<".", "p", "d", "f">>

\* C13 witness: a PDF downloaded under a title with a blank, a tab and a
\* slash in it.
C13_Witness ==
  /\ call = "download"
  /\ paper.ptype = "pdf" /\ paper.purl = "s"
  /\ paper.title = <<"a", " ", "\t", "/">>
  /\ outputDir = <<".">>
  /\ ~ret.threw
  /\ ret.calls = <<DownloadCall("s", <<".", "/", "a", "_", "_", "_", ".", "p", "d", "f">>)>>

IsThrow(m) == m.out = "throw"

\* C14: when the transform or a next-page fetch rejects inside the loop, the
\* run ends there as a failure: the rejected call is the last call made (no
\* retry, no close call), it stays the only rejected one, and no list is
\* returned.
C14_LoopFailurePropagates ==
  /\ failedAt \in {"map", "next"} =>
       /\ pc = "failed"
       /\ Count(log, "close") = 0
       /\ log[Len(log)] = failedAt
       /\ failedAt = "map" => IsThrow(mapped[Len(mapped)])
       /\ failedAt = "next" => response.hasNext
  /\ Len(SelectSeq(mapped, IsThrow)) = (IF failedAt = "map" THEN 1 ELSE 0)
  /\ Returned => failedAt = "none"

\* C14 witness: the transform rejected after an entity had been collected and
\* a second page fetched.
C14_Witness ==
  /\ failedAt = "map"
  /\ Len(entities) >= 1
  /\ Len(fetched) >= 2

\* C15 as stated: once the entity count has reached a positive targetCount
\* no further page is fetched, also when the current page has a next page:
\* the last page fetched is the one that gave the last entity, and no
\* next-page call follows the last transform call.
C15_NoFetchAfterTarget ==
  (maxItems > 0 /\ Len(entities) >= maxItems) =>
    /\ Len(fetched) = entities[Len(entities)].of[1]
    /\ \A k \in 1..Len(log) :
         log[k] = "next" => \E j \in (k + 1)..Len(log) : log[j] = "map"

\* The cursor is only driven forward: the k-th page fetched is the k-th page
\* of the cursor, the current page is the last one fetched, and every fetch
\* call gave one page (but for a rejected one).
ForwardOnly ==
  /\ \A k \in 1..Len(fetched) : fetched[k].no = k
  /\ fetched # <<>> => response = fetched[Len(fetched)]
  /\ Count(log, "search") + Count(log, "next")
       = Len(fetched) + (IF failedAt \in {"search", "next"} THEN 1 ELSE 0)
  /\ Count(log, "search") <= 1

\* C16: on a finite cursor, with a transform that returns, fetchPapers
\* terminates for every targetCount (a run in which no call rejects reaches
\* its return), fetching each page at most once and only forward.
C16_CollectorTerminates ==
  /\ []ForwardOnly
  /\ <>(Returned \/ failedAt # "none")

\* C16 witness: a bounded run returned with nothing, the transform having
\* filtered out every result of a cursor of several pages.
C16_Witness ==
  /\ Returned
  /\ maxItems > 0
  /\ entities = <<>>
  /\ Len(mapped) >= 2
  /\ Len(fetched) >= 2

=============================================================================
